---- MODULE Spec2Model ----
(***************************************************************************)
(* A model of the VanillAI rendering core: the PPMImage pixel buffer and   *)
(* its P3 encoder (visualization/ppm/ppm.py), the Scatter and Line plot    *)
(* composers (visualization/plot/scatter.py, line.py) with the shared tick *)
(* drawing of Plot (plot.py), and the Bresenham rasterizer of Line.        *)
(***************************************************************************)
EXTENDS Integers, Sequences, FiniteSets, TLC

\* ------------------------------------------------------------------ bounds
\* Largest width and height of a canvas built directly (PPMImage(w, h, bg)).
MaxW == 3
MaxH == 3
\* Largest dot radius / line thickness / point size.
MaxRadius == 1
\* Number of drawing calls (set_pixel, draw_dot) made on one image in a behaviour.
MaxDraws == 1
\* The plot extent of the canvas of a plot: its width is 2 * Margin + ExtW and
\* its height 2 * Margin + ExtH.
ExtW == 3
ExtH == 2
\* Longest data series, colour list and tick list of a plot.
MaxLen == 2
\* Most points of a polyline.
MaxPts == 3
\* Most rows and columns of a CSV file, and most add_row calls on one object.
MaxRows == 2
MaxCols == 2
MaxAdds == 2

\* self.margin of Scatter and Line
Margin == 50
\* The values the data series and the ticks are drawn from.
DataValues == {0, 1, 3}

\* RGB triples used as backgrounds and drawing colours.
White == <<255, 255, 255>>
Black == <<0, 0, 0>>
Colors == {White, <<123, 40, 7>>}

VARIABLES
  width,     \* PPMImage.width
  height,    \* PPMImage.height
  bg_color,  \* PPMImage.bg_color
  pixels,    \* PPMImage.pixels: pixels[y][x], row-major, 0-based
  file,      \* the text last written by save (<<>> while nothing was written)
  plot,      \* the Scatter / Line object owning the image (kind "none": a bare image)
  call,      \* the last call made: its name, arguments, outcome, and the pixels before it
  nops,      \* drawing calls made so far
  csv,       \* the Csv object: header and rows (kind "none": no Csv object)
  random     \* the random module: how a seeded shuffle rearranges a list

vars == <<width, height, bg_color, pixels, file, plot, call, nops, csv, random>>

\* ------------------------------------------------------------ PPMImage
\* PPMImage.__init__: the grid of height rows of width background pixels.
NewPixels(w, h, background) == [y \in 0..(h - 1) |-> [x \in 0..(w - 1) |-> background]]

\* A variant of set_pixel without the lower bound tests: Python's negative
\* indices then wrap around to the other edge.
set_pixel_nolower(px, x, y, color) ==
  IF x < width /\ y < height /\ x >= -width /\ y >= -height
  THEN [px EXCEPT ![y % height][x % width] = color]
  ELSE px

\* PPMImage.set_pixel
set_pixel(px, x, y, color) ==
  IF 0 <= x /\ x < width /\ 0 <= y /\ y < height
  THEN [px EXCEPT ![y][x] = color]
  ELSE px

\* The inner loop of draw_dot: for dy in range(-radius, radius + 1).
RECURSIVE draw_dot_dy(_, _, _, _, _, _, _)
draw_dot_dy(px, x, y, dx, dy, radius, color) ==
  IF dy >= radius + 1 THEN px
  ELSE draw_dot_dy(set_pixel(px, x + dx, y + dy, color), x, y, dx, dy + 1, radius, color)

\* The outer loop of draw_dot: for dx in range(-radius, radius + 1).
RECURSIVE draw_dot_dx(_, _, _, _, _, _)
draw_dot_dx(px, x, y, dx, radius, color) ==
  IF dx >= radius + 1 THEN px
  ELSE draw_dot_dx(draw_dot_dy(px, x, y, dx, -radius, radius, color), x, y, dx + 1, radius, color)

\* A variant of draw_dot whose ranges stop one short: range(-radius, radius).
RECURSIVE draw_dot_short_dy(_, _, _, _, _, _, _)
draw_dot_short_dy(px, x, y, dx, dy, radius, color) ==
  IF dy >= radius THEN px
  ELSE draw_dot_short_dy(set_pixel(px, x + dx, y + dy, color), x, y, dx, dy + 1, radius, color)

RECURSIVE draw_dot_short_dx(_, _, _, _, _, _)
draw_dot_short_dx(px, x, y, dx, radius, color) ==
  IF dx >= radius THEN px
  ELSE draw_dot_short_dx(draw_dot_short_dy(px, x, y, dx, -radius, radius, color),
                         x, y, dx + 1, radius, color)

draw_dot_short(px, x, y, radius, color) ==
  IF DOMAIN px = {} THEN px ELSE draw_dot_short_dx(px, x, y, -radius, radius, color)

\* PPMImage.draw_dot (the pixels are looked at first, so that TLC has their
\* value before the loops start; an image without rows has nothing to set)
draw_dot(px, x, y, radius, color) ==
  IF DOMAIN px = {} THEN px ELSE draw_dot_dx(px, x, y, -radius, radius, color)

\* ------------------------------------------------------------ Line
Sign(a, b) == IF a < b THEN 1 ELSE -1

\* A variant of the loop of _draw_line that tests for the end point before it
\* stamps, and so never stamps the end point.
RECURSIVE draw_line_loop_noend(_, _, _, _, _, _, _, _, _, _)
draw_line_loop_noend(stamps, x0, y0, x1, y1, dx, dy, sx, sy, err) ==
  IF x0 = x1 /\ y0 = y1 THEN stamps
  ELSE draw_line_loop_noend(Append(stamps, <<x0, y0>>),
                            IF 2 * err >= dy THEN x0 + sx ELSE x0,
                            IF 2 * err <= dx THEN y0 + sy ELSE y0,
                            x1, y1, dx, dy, sx, sy,
                            (IF 2 * err >= dy THEN err + dy ELSE err)
                              + (IF 2 * err <= dx THEN dx ELSE 0))

\* A variant of the loop of _draw_line whose second test is an elif: x and y
\* never advance in the same iteration.
RECURSIVE draw_line_loop_elif(_, _, _, _, _, _, _, _, _, _)
draw_line_loop_elif(stamps, x0, y0, x1, y1, dx, dy, sx, sy, err) ==
  IF x0 = x1 /\ y0 = y1 THEN Append(stamps, <<x0, y0>>)
  ELSE draw_line_loop_elif(Append(stamps, <<x0, y0>>),
                           IF 2 * err >= dy THEN x0 + sx ELSE x0,
                           IF 2 * err < dy /\ 2 * err <= dx THEN y0 + sy ELSE y0,
                           x1, y1, dx, dy, sx, sy,
                           (IF 2 * err >= dy THEN err + dy ELSE err)
                             + (IF 2 * err < dy /\ 2 * err <= dx THEN dx ELSE 0))

\* The while True loop of Line._draw_line, as the list of the centres it stamps:
\* stamp (x0, y0); stop at (x1, y1); e2 = 2 * err;
\* if e2 >= dy: err += dy, x0 += sx;  if e2 <= dx: err += dx, y0 += sy.
RECURSIVE draw_line_loop(_, _, _, _, _, _, _, _, _, _)
draw_line_loop(stamps, x0, y0, x1, y1, dx, dy, sx, sy, err) ==
  IF x0 = x1 /\ y0 = y1 THEN Append(stamps, <<x0, y0>>)
  ELSE draw_line_loop(Append(stamps, <<x0, y0>>),
                      IF 2 * err >= dy THEN x0 + sx ELSE x0,
                      IF 2 * err <= dx THEN y0 + sy ELSE y0,
                      x1, y1, dx, dy, sx, sy,
                      (IF 2 * err >= dy THEN err + dy ELSE err)
                        + (IF 2 * err <= dx THEN dx ELSE 0))

\* The centres Line._draw_line(x0, y0, x1, y1) stamps, in order: dx, dy, sx, sy
\* and err as the method sets them, then the loop.
LineStamps(x0, y0, x1, y1) ==
  draw_line_loop(<<>>, x0, y0, x1, y1,
                 IF x1 - x0 < 0 THEN x0 - x1 ELSE x1 - x0,
                 -(IF y1 - y0 < 0 THEN y0 - y1 ELSE y1 - y0),
                 Sign(x0, x1), Sign(y0, y1),
                 (IF x1 - x0 < 0 THEN x0 - x1 ELSE x1 - x0)
                   - (IF y1 - y0 < 0 THEN y0 - y1 ELSE y1 - y0))

\* draw_dot(cx, cy, radius, color) for the centres stamps[lo..hi], in order.
\* (The range is halved rather than walked, which keeps TLC's evaluation shallow.)
RECURSIVE StampRange(_, _, _, _, _, _)
StampRange(px, stamps, lo, hi, radius, color) ==
  IF DOMAIN px = {} THEN px ELSE
  IF lo > hi THEN px
  ELSE IF lo = hi THEN draw_dot(px, stamps[lo][1], stamps[lo][2], radius, color)
  ELSE StampRange(StampRange(px, stamps, lo, (lo + hi) \div 2, radius, color),
                  stamps, ((lo + hi) \div 2) + 1, hi, radius, color)

\* Line._draw_line: the pixels after the stamps of the segment are drawn.
Line_draw_line(px, x0, y0, x1, y1, radius, color) ==
  IF DOMAIN px = {} THEN px ELSE
  StampRange(px, LineStamps(x0, y0, x1, y1), 1, Len(LineStamps(x0, y0, x1, y1)), radius, color)

\* ---- text: a file is a sequence of one-character strings
Digit(d) == CASE d = 0 -> "0" [] d = 1 -> "1" [] d = 2 -> "2" [] d = 3 -> "3" [] d = 4 -> "4"
              [] d = 5 -> "5" [] d = 6 -> "6" [] d = 7 -> "7" [] d = 8 -> "8" [] d = 9 -> "9"

\* The decimal digits of n >= 0, most significant first.
RECURSIVE NatStr(_)
NatStr(n) == IF n < 10 THEN <<Digit(n)>> ELSE NatStr(n \div 10) \o <<Digit(n % 10)>>

\* Python's str(n) / f"{n}" of an int.
IntStr(n) == IF n < 0 THEN <<"-">> \o NatStr(-n) ELSE NatStr(n)

\* save's inner loop over one row: f"{r} {g} {b} " for every pixel of the row.
RECURSIVE RowText(_, _)
RowText(row, x) ==
  IF x >= width THEN <<>>
  ELSE IntStr(row[x][1]) \o <<" ">> \o IntStr(row[x][2]) \o <<" ">> \o IntStr(row[x][3]) \o <<" ">>
       \o RowText(row, x + 1)

\* A variant of save's row loop that forgets the "\n" after each row.
RECURSIVE RowsText_oneline(_, _)
RowsText_oneline(px, y) ==
  IF y >= height THEN <<>>
  ELSE RowText(px[y], 0) \o RowsText_oneline(px, y + 1)

\* save's loop over the rows: the row's text, then "\n".
RECURSIVE RowsText(_, _)
RowsText(px, y) ==
  IF y >= height THEN <<>>
  ELSE RowText(px[y], 0) \o <<"\n">> \o RowsText(px, y + 1)

\* A variant of save that writes the header as "<height> <width>".
SaveText_swapped(px) ==
  <<"P", "3", "\n">> \o IntStr(height) \o <<" ">> \o IntStr(width) \o <<"\n", "2", "5", "5", "\n">>
  \o RowsText(px, 0)

\* PPMImage.save: the text written to the file.
SaveText(px) ==
  <<"P", "3", "\n">> \o IntStr(width) \o <<" ">> \o IntStr(height) \o <<"\n", "2", "5", "5", "\n">>
  \o RowsText(px, 0)

\* ------------------------------------------------------------ FontEngine
\* The 5x7 bitmaps of the characters the plots of this model write, row by row.
GlyphRows(ch) ==
  CASE ch = "A" -> <<<<0,1,1,1,0>>, <<1,0,0,0,1>>, <<1,0,0,0,1>>, <<1,1,1,1,1>>,
                     <<1,0,0,0,1>>, <<1,0,0,0,1>>, <<1,0,0,0,1>>>>
    [] ch = "X" -> <<<<1,0,0,0,1>>, <<1,0,0,0,1>>, <<0,1,0,1,0>>, <<0,0,1,0,0>>,
                     <<0,1,0,1,0>>, <<1,0,0,0,1>>, <<1,0,0,0,1>>>>
    [] ch = "Y" -> <<<<1,0,0,0,1>>, <<1,0,0,0,1>>, <<0,1,0,1,0>>, <<0,0,1,0,0>>,
                     <<0,0,1,0,0>>, <<0,0,1,0,0>>, <<0,0,1,0,0>>>>
    [] ch = "0" -> <<<<0,1,1,1,0>>, <<1,0,0,0,1>>, <<1,0,0,1,1>>, <<1,0,1,0,1>>,
                     <<1,1,0,0,1>>, <<1,0,0,0,1>>, <<0,1,1,1,0>>>>
    [] ch = "1" -> <<<<0,0,1,0,0>>, <<0,1,1,0,0>>, <<0,0,1,0,0>>, <<0,0,1,0,0>>,
                     <<0,0,1,0,0>>, <<0,0,1,0,0>>, <<0,1,1,1,0>>>>
    [] ch = "2" -> <<<<0,1,1,1,0>>, <<1,0,0,0,1>>, <<0,0,0,0,1>>, <<0,0,0,1,0>>,
                     <<0,0,1,0,0>>, <<0,1,0,0,0>>, <<1,1,1,1,1>>>>
    [] ch = "3" -> <<<<1,1,1,1,0>>, <<0,0,0,0,1>>, <<0,0,0,0,1>>, <<0,1,1,1,0>>,
                     <<0,0,0,0,1>>, <<0,0,0,0,1>>, <<1,1,1,1,0>>>>
    [] ch = "-" -> <<<<0,0,0,0,0>>, <<0,0,0,0,0>>, <<0,0,0,0,0>>, <<1,1,1,1,1>>,
                     <<0,0,0,0,0>>, <<0,0,0,0,0>>, <<0,0,0,0,0>>>>
    [] OTHER -> <<<<0,0,0,0,0>>, <<0,0,0,0,0>>, <<0,0,0,0,0>>, <<0,0,0,0,0>>,
                  <<0,0,0,0,0>>, <<0,0,0,0,0>>, <<0,0,0,0,0>>>>

\* The characters that have a glyph in this model.
GlyphChars == {"A", "X", "Y", "0", "1", "2", "3", "-"}

\* The set bits of each glyph as <<column, row>>, row by row.
GlyphCells ==
  [ch \in GlyphChars |->
     SelectSeq([k \in 1..35 |-> <<(k - 1) % 5, (k - 1) \div 5>>],
               LAMBDA p : GlyphRows(ch)[p[2] + 1][p[1] + 1] = 1)]

\* The pixels one character inks when its glyph's top-left pixel is (gx, gy):
\* each set bit (c, r) is a scale x scale block at offset (c * scale, r * scale).
\* A character without a glyph inks nothing.
CharInk(ch, gx, gy, scale) ==
  IF ch \notin GlyphChars THEN <<>>
  ELSE [m \in 1..(Len(GlyphCells[ch]) * scale * scale) |->
          <<gx + GlyphCells[ch][((m - 1) \div (scale * scale)) + 1][1] * scale
               + (((m - 1) % (scale * scale)) % scale),
            gy + GlyphCells[ch][((m - 1) \div (scale * scale)) + 1][2] * scale
               + (((m - 1) % (scale * scale)) \div scale)>>]

\* The pixels the characters text[i..] ink, character i (from 1) at
\* x + (i - 1) * 6 * scale: every character advances the cursor by 6 * scale.
RECURSIVE TextInkFrom(_, _, _, _, _)
TextInkFrom(x, y, text, scale, i) ==
  IF i > Len(text) THEN <<>>
  ELSE CharInk(text[i], x + (i - 1) * 6 * scale, y, scale)
         \o TextInkFrom(x, y, text, scale, i + 1)

\* The pixels draw_text inks, in drawing order.
TextInk(x, y, text, scale) == TextInkFrom(x, y, text, scale, 1)

\* set_pixel(x, y, color) for the pixels cells[lo..hi], in order.
\* (The range is halved rather than walked, which keeps TLC's evaluation shallow.)
RECURSIVE SetPixelRange(_, _, _, _, _)
SetPixelRange(px, cells, lo, hi, color) ==
  IF DOMAIN px = {} THEN px ELSE
  IF lo > hi THEN px
  ELSE IF lo = hi THEN set_pixel(px, cells[lo][1], cells[lo][2], color)
  ELSE SetPixelRange(SetPixelRange(px, cells, lo, (lo + hi) \div 2, color),
                     cells, ((lo + hi) \div 2) + 1, hi, color)

\* set_pixel(x, y, color) for every pixel of ink, in order.
DrawInk(px, ink, color) ==
  IF DOMAIN px = {} THEN px ELSE
  SetPixelRange(px, ink, 1, Len(ink), color)

\* FontEngine.draw_text(image, x, y, text, color, scale)
\* (The drawing operators look at the pixels they are given before they draw, so
\* that TLC evaluates a chain of drawing steps one step at a time.)
draw_text(px, x, y, text, color, scale) ==
  IF DOMAIN px = {} THEN px ELSE
  DrawInk(px, TextInk(x, y, text, scale), color)

\* ------------------------------------------------------------ Plot
\* Python's None for an optional list, and a list given.
None == [is_none |-> TRUE, list |-> <<>>]
Some(l) == [is_none |-> FALSE, list |-> l]
\* Python's truth value of an optional list: neither None nor empty.
Truthy(v) == ~v.is_none /\ Len(v.list) > 0

SeqMin(q) == CHOOSE v \in {q[i] : i \in 1..Len(q)} : \A i \in 1..Len(q) : v <= q[i]
SeqMax(q) == CHOOSE v \in {q[i] : i \in 1..Len(q)} : \A i \in 1..Len(q) : v >= q[i]
Least(a, b) == IF a <= b THEN a ELSE b

\* n / d truncated toward zero, as int() of a float does (d > 0).
Trunc(n, d) == IF n >= 0 THEN n \div d ELSE -((-n) \div d)

RECURSIVE OddPart(_)
OddPart(b) == IF b % 2 = 0 THEN OddPart(b \div 2) ELSE b

\* Whether int(a / b * e) depends on how the floats round: the quotient a / b is
\* not a binary fraction while the exact product a * e / b is a whole number k
\* other than 0. The float product is then k or the float next to it: int()
\* gives k, or the integer one nearer to zero (as in int(1 / 49 * 49) == 0).
Inexact(a, b, e) == a % OddPart(b) # 0 /\ (a * e) % b = 0 /\ a * e # 0

\* A variant of the scaling that spreads the values over one pixel less.
Scale_short(a, b, e, low) == Trunc(a * (e - 1), b)

\* int((v - min) / range * extent) for a = v - min, b = range, e = extent; low
\* is the set of differences a whose float product rounds below the whole number.
Scale(a, b, e, low) ==
  IF Inexact(a, b, e) /\ a \in low
  THEN (IF a * e > 0 THEN Trunc(a * e, b) - 1 ELSE Trunc(a * e, b) + 1)
  ELSE Trunc(a * e, b)

\* px of a data value or tick: int((x - min_x) / range_x * plot_w) + margin
MapX(v, P, low) == Scale(v - P.min_x, P.range_x, P.plot_w, low) + P.margin

\* A variant of the vertical mapping without the flip.
MapY_unflipped(v, P, low) == Scale(v - P.min_y, P.range_y, P.plot_h, low) + P.margin

\* py of a data value or tick: height - int((y - min_y) / range_y * plot_h) - margin
MapY(v, P, low) == height - Scale(v - P.min_y, P.range_y, P.plot_h, low) - P.margin

\* The pixel coordinates of the points of zip(x_data, y_data), in order.
PixelCoords(P, lowx, lowy) ==
  [i \in 1..Least(Len(P.x_data), Len(P.y_data)) |->
     <<MapX(P.x_data[i], P, lowx), MapY(P.y_data[i], P, lowy)>>]

\* A variant of the colour choice that goes round a short colour list again.
DotColor_cycle(P, i) ==
  IF Truthy(P.dot_colors) THEN P.dot_colors.list[(i % Len(P.dot_colors.list)) + 1] ELSE P.color

\* The colour of point i (from 0) of a Scatter:
\* dot_colors[i] if dot_colors and i < len(dot_colors) else color
DotColor(P, i) ==
  IF Truthy(P.dot_colors) /\ i < Len(P.dot_colors.list) THEN P.dot_colors.list[i + 1] ELSE P.color

\* The loop of Scatter._draw_points over the points lo..hi (from 1): draw_dot at
\* the point's pixel in its colour. (Halved rather than walked.)
RECURSIVE DrawPointsRange(_, _, _, _, _)
DrawPointsRange(px, P, coords, lo, hi) ==
  IF DOMAIN px = {} THEN px ELSE
  IF lo > hi THEN px
  ELSE IF lo = hi
       THEN draw_dot(px, coords[lo][1], coords[lo][2], P.point_size, DotColor(P, lo - 1))
  ELSE DrawPointsRange(DrawPointsRange(px, P, coords, lo, (lo + hi) \div 2),
                       P, coords, ((lo + hi) \div 2) + 1, hi)

\* Scatter._draw_points
Scatter_draw_points(px, P, coords) ==
  IF DOMAIN px = {} THEN px ELSE
  DrawPointsRange(px, P, coords, 1, Len(coords))

\* The second loop of Line._draw_lines over the segments lo..hi: segment k joins
\* pixel_coords[k-1] and pixel_coords[k] (from 0). (Halved rather than walked.)
RECURSIVE DrawSegmentsRange(_, _, _, _, _)
DrawSegmentsRange(px, P, coords, lo, hi) ==
  IF DOMAIN px = {} THEN px ELSE
  IF lo > hi THEN px
  ELSE IF lo = hi
       THEN Line_draw_line(px, coords[lo][1], coords[lo][2], coords[lo + 1][1], coords[lo + 1][2],
                           P.line_thickness, P.color)
  ELSE DrawSegmentsRange(DrawSegmentsRange(px, P, coords, lo, (lo + hi) \div 2),
                         P, coords, ((lo + hi) \div 2) + 1, hi)

\* The stamp centres of the segments Line._draw_lines rasterizes, segment by
\* segment: _draw_line(x0, y0, x1, y1) for zip(pixel_coords[:-1], pixel_coords[1:]).
LineSegments(coords) ==
  [k \in 1..(IF Len(coords) > 0 THEN Len(coords) - 1 ELSE 0) |->
     LineStamps(coords[k][1], coords[k][2], coords[k + 1][1], coords[k + 1][2])]

\* A variant of _draw_lines that leaves out the last segment.
Line_draw_lines_short(px, P, coords) ==
  IF DOMAIN px = {} THEN px ELSE
  DrawSegmentsRange(px, P, coords, 1, Len(coords) - 2)

\* Line._draw_lines: zip(pixel_coords[:-1], pixel_coords[1:])
Line_draw_lines(px, P, coords) ==
  IF DOMAIN px = {} THEN px ELSE
  DrawSegmentsRange(px, P, coords, 1, Len(coords) - 1)

\* The two axis loops of render: for i in range(plot_w + 1) the pixel
\* (margin + i, height - margin), for i in range(plot_h + 1) the pixel
\* (margin, height - margin - i), in black.
DrawAxes(px, P) ==
  IF DOMAIN px = {} THEN px ELSE
  SetPixelRange(
    SetPixelRange(px, [k \in 1..(IF P.plot_w + 1 > 0 THEN P.plot_w + 1 ELSE 0) |->
                        <<P.margin + (k - 1), height - P.margin>>],
                  1, P.plot_w + 1, Black),
    [k \in 1..(IF P.plot_h + 1 > 0 THEN P.plot_h + 1 ELSE 0) |->
       <<P.margin, height - P.margin - (k - 1)>>],
    1, P.plot_h + 1, Black)

\* render's title, X label and Y label: each drawn when the string is not empty.
DrawLabels(px, P) ==
  IF DOMAIN px = {} THEN px ELSE
  (LET withTitle == IF Len(P.title) > 0
                    THEN draw_text(px, (width \div 2) - ((Len(P.title) * 6) \div 2), 10,
                                   P.title, Black, 1)
                    ELSE px
       withX == IF Len(P.x_label) > 0
                THEN draw_text(withTitle, (width \div 2) - ((Len(P.x_label) * 6) \div 2),
                               height - 25, P.x_label, Black, 1)
                ELSE withTitle
   IN IF Len(P.y_label) > 0
      THEN draw_text(withX, 5, P.margin, SubSeq(P.y_label, 1, Least(10, Len(P.y_label))),
                     Black, 1)
      ELSE withX)

\* Plot.draw_x_ticks over the ticks lo..hi: str(tick) at (px - 5, height - margin + 5)
RECURSIVE draw_x_ticks(_, _, _, _, _)
draw_x_ticks(px, P, low, lo, hi) ==
  IF DOMAIN px = {} THEN px ELSE
  IF lo > hi THEN px
  ELSE IF lo = hi
       THEN draw_text(px, MapX(P.x_ticks.list[lo], P, low) - 5, height - P.margin + 5,
                      IntStr(P.x_ticks.list[lo]), Black, 1)
  ELSE draw_x_ticks(draw_x_ticks(px, P, low, lo, (lo + hi) \div 2),
                    P, low, ((lo + hi) \div 2) + 1, hi)

\* Plot.draw_y_ticks over the ticks lo..hi: str(tick) at (10, py - 3)
RECURSIVE draw_y_ticks(_, _, _, _, _)
draw_y_ticks(px, P, low, lo, hi) ==
  IF DOMAIN px = {} THEN px ELSE
  IF lo > hi THEN px
  ELSE IF lo = hi
       THEN draw_text(px, 10, MapY(P.y_ticks.list[lo], P, low) - 3,
                      IntStr(P.y_ticks.list[lo]), Black, 1)
  ELSE draw_y_ticks(draw_y_ticks(px, P, low, lo, (lo + hi) \div 2),
                    P, low, ((lo + hi) \div 2) + 1, hi)

\* render's tick marks: if self.x_ticks: draw_x_ticks(...); if self.y_ticks: ...
DrawTicks(px, P, lowx, lowy) ==
  IF DOMAIN px = {} THEN px ELSE
  (LET withX == IF Truthy(P.x_ticks) THEN draw_x_ticks(px, P, lowx, 1, Len(P.x_ticks.list))
                ELSE px
   IN IF Truthy(P.y_ticks) THEN draw_y_ticks(withX, P, lowy, 1, Len(P.y_ticks.list))
      ELSE withX)

\* The plot after render's first assignments: plot_w and plot_h.
WithExtent(P) ==
  [P EXCEPT !.plot_w = width - 2 * P.margin, !.plot_h = height - 2 * P.margin]

\* The plot after min_x, min_y, range_x and range_y are set (max - min or 1).
WithRange(P) ==
  [WithExtent(P) EXCEPT
     !.min_x = SeqMin(P.x_data), !.min_y = SeqMin(P.y_data),
     !.range_x = IF SeqMax(P.x_data) - SeqMin(P.x_data) = 0 THEN 1
                 ELSE SeqMax(P.x_data) - SeqMin(P.x_data),
     !.range_y = IF SeqMax(P.y_data) - SeqMin(P.y_data) = 0 THEN 1
                 ELSE SeqMax(P.y_data) - SeqMin(P.y_data)]

\* The data drawing step of the variant.
DrawData(px, P, coords) ==
  IF DOMAIN px = {} THEN px ELSE
  IF P.kind = "Scatter" THEN Scatter_draw_points(px, P, coords)
  ELSE Line_draw_lines(px, P, coords)

\* A variant of the drawing that draws the axes first and the data over them.
RenderDrawing_axes_first(px, P, lowx, lowy) ==
  DrawTicks(DrawLabels(DrawData(DrawAxes(px, P), P, PixelCoords(P, lowx, lowy)), P),
            P, lowx, lowy)

\* What render draws once the ranges are set: the data, the axes, the labels, the ticks.
RenderDrawing(px, P, lowx, lowy) ==
  DrawTicks(DrawLabels(DrawAxes(DrawData(px, P, PixelCoords(P, lowx, lowy)), P), P),
            P, lowx, lowy)

\* A variant of render that validates the lengths only after it has drawn.
Render_validate_last(px, P, lowx, lowy) ==
  IF Len(P.x_data) = 0 \/ Len(P.y_data) = 0
  THEN [raised |-> "ValueError: min() arg is an empty sequence",
        plot |-> WithExtent(P), pixels |-> px, pixel_coords |-> <<>>]
  ELSE IF Len(P.x_data) # Len(P.y_data)
  THEN [raised |-> "ValueError: x_data and y_data must be the same length",
        plot |-> WithRange(P), pixels |-> RenderDrawing(px, WithRange(P), lowx, lowy),
        pixel_coords |-> <<>>]
  ELSE [raised |-> "", plot |-> WithRange(P),
        pixels |-> RenderDrawing(px, WithRange(P), lowx, lowy),
        pixel_coords |-> PixelCoords(WithRange(P), lowx, lowy)]

\* A variant of render that takes the range as max - min, without the "or 1".
Render_no_or_one(px, P, lowx, lowy) ==
  IF Len(P.x_data) # Len(P.y_data)
  THEN [raised |-> "ValueError: x_data and y_data must be the same length",
        plot |-> P, pixels |-> px, pixel_coords |-> <<>>]
  ELSE IF Len(P.x_data) = 0
  THEN [raised |-> "ValueError: min() arg is an empty sequence",
        plot |-> WithExtent(P), pixels |-> px, pixel_coords |-> <<>>]
  ELSE IF SeqMax(P.x_data) = SeqMin(P.x_data) \/ SeqMax(P.y_data) = SeqMin(P.y_data)
  THEN [raised |-> "ZeroDivisionError: division by zero",
        plot |-> WithExtent(P), pixels |-> px, pixel_coords |-> <<>>]
  ELSE [raised |-> "", plot |-> WithRange(P),
        pixels |-> RenderDrawing(px, WithRange(P), lowx, lowy),
        pixel_coords |-> PixelCoords(WithRange(P), lowx, lowy)]

\* Scatter.render / Line.render: the exception raised ("" when none), the plot
\* and the pixels afterwards, and the pixel coordinates computed for the points.
\* The length test comes first; min() of an empty series raises next, after
\* plot_w and plot_h are set.
Render(px, P, lowx, lowy) ==
  IF Len(P.x_data) # Len(P.y_data)
  THEN [raised |-> "ValueError: x_data and y_data must be the same length",
        plot |-> P, pixels |-> px, pixel_coords |-> <<>>]
  ELSE IF Len(P.x_data) = 0
  THEN [raised |-> "ValueError: min() arg is an empty sequence",
        plot |-> WithExtent(P), pixels |-> px, pixel_coords |-> <<>>]
  ELSE [raised |-> "", plot |-> WithRange(P),
        pixels |-> RenderDrawing(px, WithRange(P), lowx, lowy),
        pixel_coords |-> PixelCoords(WithRange(P), lowx, lowy)]

\* The differences v - min of the data and ticks whose pixel depends on float rounding.
InexactX(P) ==
  IF Len(P.x_data) = 0 \/ Len(P.x_data) # Len(P.y_data) THEN {}
  ELSE {a \in {v - SeqMin(P.x_data) :
                 v \in {P.x_data[i] : i \in 1..Len(P.x_data)}
                       \cup {P.x_ticks.list[i] : i \in 1..Len(P.x_ticks.list)}} :
          Inexact(a, WithRange(P).range_x, WithRange(P).plot_w)}

InexactY(P) ==
  IF Len(P.y_data) = 0 \/ Len(P.x_data) # Len(P.y_data) THEN {}
  ELSE {a \in {v - SeqMin(P.y_data) :
                 v \in {P.y_data[i] : i \in 1..Len(P.y_data)}
                       \cup {P.y_ticks.list[i] : i \in 1..Len(P.y_ticks.list)}} :
          Inexact(a, WithRange(P).range_y, WithRange(P).plot_h)}

\* ------------------------------------------------------------ calls
NoCall == [op |-> "none"]
NoPlot == [kind |-> "none"]
\* No Csv object, and a random module nobody uses.
NoCsv == [kind |-> "none"]
NoRandom == [kind |-> "none"]

\* PPMImage(width, height, background)
InitImage ==
  /\ csv = NoCsv
  /\ random = NoRandom
  /\ width \in 1..MaxW
  /\ height \in 1..MaxH
  /\ bg_color \in Colors
  /\ pixels = NewPixels(width, height, bg_color)
  /\ file = <<>>
  /\ plot = NoPlot
  /\ call = NoCall
  /\ nops = 0

\* image.set_pixel(x, y, c); the drawing calls come before the save, as in
\* TestPPMImage.test_save_file_exists
SetPixel ==
  /\ nops < MaxDraws
  /\ call.op # "save"
  /\ \E x \in -1..width, y \in -1..height, c \in Colors :
       /\ pixels' = set_pixel(pixels, x, y, c)
       /\ call' = [op |-> "set_pixel", x |-> x, y |-> y, color |-> c, before |-> pixels]
  /\ nops' = nops + 1
  /\ UNCHANGED <<csv, random, width, height, bg_color, file, plot>>

\* image.draw_dot(x, y, radius, c)
DrawDot ==
  /\ nops < MaxDraws
  /\ call.op # "save"
  /\ \E x \in -1..width, y \in -1..height, r \in 0..MaxRadius, c \in Colors :
       /\ pixels' = draw_dot(pixels, x, y, r, c)
       /\ call' = [op |-> "draw_dot", x |-> x, y |-> y, radius |-> r, color |-> c,
                   before |-> pixels]
  /\ nops' = nops + 1
  /\ UNCHANGED <<csv, random, width, height, bg_color, file, plot>>

\* image.save(path)
Save ==
  /\ file' = SaveText(pixels)
  /\ call' = [op |-> "save", before |-> pixels]
  /\ UNCHANGED <<csv, random, width, height, bg_color, pixels, plot, nops>>

NextImage == SetPixel \/ DrawDot \/ Save

SpecImage == InitImage /\ [][NextImage]_vars

\* Line([], [], color=c, line_thickness=t, width=w, height=h): a Line plot whose
\* _draw_line is called with endpoints of its own.
InitLine ==
  /\ csv = NoCsv
  /\ random = NoRandom
  /\ width \in 1..MaxW
  /\ height \in 1..MaxH
  /\ bg_color = White
  /\ pixels = NewPixels(width, height, bg_color)
  /\ file = <<>>
  /\ \E t \in 0..MaxRadius :
       plot = [kind |-> "Line", color |-> Black, line_thickness |-> t]
  /\ call = NoCall
  /\ nops = 0

\* line._draw_line(x0, y0, x1, y1), once
DrawLine ==
  /\ plot.kind = "Line"
  /\ call.op = "none"
  /\ \E x0 \in -1..width, x1 \in -1..width, y0 \in -1..height, y1 \in -1..height :
       /\ pixels' = Line_draw_line(pixels, x0, y0, x1, y1, plot.line_thickness, plot.color)
       /\ call' = [op |-> "_draw_line", x0 |-> x0, y0 |-> y0, x1 |-> x1, y1 |-> y1,
                   stamps |-> LineStamps(x0, y0, x1, y1), before |-> pixels]
  /\ nops' = nops + 1
  /\ UNCHANGED <<csv, random, width, height, bg_color, file, plot>>

NextLine == DrawLine

SpecLine == InitLine /\ [][NextLine]_vars

\* ---- Line._draw_line, one loop iteration at a time
\* The frame of _draw_line(x0, y0, x1, y1) when it reaches its loop: the locals
\* as lines 189-193 set them, with the start point and the stamps made so far.
DrawLineFrame(x0, y0, x1, y1) ==
  [op |-> "_draw_line", pc |-> "loop", x0 |-> x0, y0 |-> y0, x1 |-> x1, y1 |-> y1,
   dx |-> (IF x1 - x0 < 0 THEN x0 - x1 ELSE x1 - x0),
   dy |-> -(IF y1 - y0 < 0 THEN y0 - y1 ELSE y1 - y0),
   sx |-> Sign(x0, x1), sy |-> Sign(y0, y1),
   err |-> (IF x1 - x0 < 0 THEN x0 - x1 ELSE x1 - x0)
             - (IF y1 - y0 < 0 THEN y0 - y1 ELSE y1 - y0),
   start |-> <<x0, y0>>, stamps |-> <<>>]

\* A variant of the iteration that breaks as soon as either coordinate has
\* reached the end point's.
draw_line_iter_or(c) ==
  IF c.x0 = c.x1 \/ c.y0 = c.y1
  THEN [c EXCEPT !.stamps = Append(@, <<c.x0, c.y0>>), !.pc = "done"]
  ELSE [c EXCEPT !.stamps = Append(@, <<c.x0, c.y0>>),
                 !.x0 = IF 2 * c.err >= c.dy THEN @ + c.sx ELSE @,
                 !.y0 = IF 2 * c.err <= c.dx THEN @ + c.sy ELSE @,
                 !.err = (IF 2 * c.err >= c.dy THEN @ + c.dy ELSE @)
                           + (IF 2 * c.err <= c.dx THEN c.dx ELSE 0)]

\* The frame after one iteration of the while True loop: the stamp at (x0, y0),
\* then the break at the end point, or else the two steps against e2 = 2 * err.
draw_line_iter(c) ==
  IF c.x0 = c.x1 /\ c.y0 = c.y1
  THEN [c EXCEPT !.stamps = Append(@, <<c.x0, c.y0>>), !.pc = "done"]
  ELSE [c EXCEPT !.stamps = Append(@, <<c.x0, c.y0>>),
                 !.x0 = IF 2 * c.err >= c.dy THEN @ + c.sx ELSE @,
                 !.y0 = IF 2 * c.err <= c.dx THEN @ + c.sy ELSE @,
                 !.err = (IF 2 * c.err >= c.dy THEN @ + c.dy ELSE @)
                           + (IF 2 * c.err <= c.dx THEN c.dx ELSE 0)]

\* line._draw_line(x0, y0, x1, y1) has been called and is about to enter its loop.
InitWalk ==
  /\ csv = NoCsv
  /\ random = NoRandom
  /\ width \in 1..MaxW
  /\ height \in 1..MaxH
  /\ bg_color = White
  /\ pixels = NewPixels(width, height, bg_color)
  /\ file = <<>>
  /\ \E t \in 0..MaxRadius :
       plot = [kind |-> "Line", color |-> Black, line_thickness |-> t]
  /\ \E x0 \in -1..width, x1 \in -1..width, y0 \in -1..height, y1 \in -1..height :
       call = DrawLineFrame(x0, y0, x1, y1)
  /\ nops = 0

\* One iteration of the loop of _draw_line.
Iterate ==
  /\ call.op = "_draw_line"
  /\ call.pc = "loop"
  /\ pixels' = draw_dot(pixels, call.x0, call.y0, plot.line_thickness, plot.color)
  /\ call' = draw_line_iter(call)
  /\ UNCHANGED <<csv, random, width, height, bg_color, file, plot, nops>>

NextWalk == Iterate

\* The interpreter keeps running the loop while it has an iteration to run.
SpecWalk == InitWalk /\ [][NextWalk]_vars /\ WF_vars(NextWalk)

\* The series a plot is built with.
Series == UNION {[1..n -> DataValues] : n \in 0..MaxLen}

\* The text and tick options a plot is built with: none, or all of them.
NoTexts ==
  [title |-> <<>>, x_label |-> <<>>, y_label |-> <<>>, x_ticks |-> None, y_ticks |-> None]
AllTexts ==
  [title |-> <<"A">>, x_label |-> <<"X">>, y_label |-> <<"Y", "-", "?">>,
   x_ticks |-> Some(<<0, 2>>), y_ticks |-> Some(<<1, 3>>)]

\* A list of n colours, none of them the plot's colour.
ColorList(n) == [i \in 1..n |-> IF i % 2 = 1 THEN <<255, 0, 0>> ELSE <<0, 0, 255>>]

\* The keyword arguments a Scatter is built with.
ScatterOptions ==
  { [dot_colors |-> None, point_size |-> 0] @@ NoTexts,
    [dot_colors |-> Some(ColorList(0)), point_size |-> 0] @@ AllTexts,
    [dot_colors |-> Some(ColorList(1)), point_size |-> MaxRadius] @@ AllTexts,
    [dot_colors |-> Some(ColorList(MaxLen)), point_size |-> MaxRadius] @@ NoTexts }

\* The keyword arguments a Line is built with.
LineOptions ==
  { [line_thickness |-> 0] @@ AllTexts,
    [line_thickness |-> MaxRadius] @@ NoTexts }

\* The attributes __init__ sets. (plot_w .. min_y are None until render sets
\* them; the model holds 0 there and reads them only after render.)
NewPlot(kind, xs, ys, options) ==
  [kind |-> kind, x_data |-> xs, y_data |-> ys, color |-> <<0, 128, 0>>,
   margin |-> Margin, plot_w |-> 0, plot_h |-> 0, range_x |-> 0, range_y |-> 0,
   min_x |-> 0, min_y |-> 0] @@ options

\* Scatter(xs, ys, ...) or Line(xs, ys, ...) on a canvas of 2 * Margin + ExtW by
\* 2 * Margin + ExtH pixels.
InitPlot ==
  /\ csv = NoCsv
  /\ random = NoRandom
  /\ width = 2 * Margin + ExtW
  /\ height = 2 * Margin + ExtH
  /\ bg_color = White
  /\ pixels = NewPixels(width, height, bg_color)
  /\ file = <<>>
  /\ \E xs \in Series, ys \in Series :
       \/ \E o \in ScatterOptions : plot = NewPlot("Scatter", xs, ys, o)
       \/ \E o \in LineOptions : plot = NewPlot("Line", xs, ys, o)
  /\ call = NoCall
  /\ nops = 0

\* scatter.render()
ScatterRender ==
  /\ plot.kind = "Scatter"
  /\ call.op = "none"
  /\ \E lowx \in SUBSET InexactX(plot), lowy \in SUBSET InexactY(plot) :
       \E r \in {Render(pixels, plot, lowx, lowy)} :
          /\ pixels' = r.pixels
          /\ plot' = r.plot
          /\ call' = [op |-> "render", raised |-> r.raised, pixel_coords |-> r.pixel_coords]
  /\ nops' = nops + 1
  /\ UNCHANGED <<csv, random, width, height, bg_color, file>>

\* line.render()
LineRender ==
  /\ plot.kind = "Line"
  /\ call.op = "none"
  /\ \E lowx \in SUBSET InexactX(plot), lowy \in SUBSET InexactY(plot) :
       \E r \in {Render(pixels, plot, lowx, lowy)} :
          /\ pixels' = r.pixels
          /\ plot' = r.plot
          /\ call' = [op |-> "render", raised |-> r.raised, pixel_coords |-> r.pixel_coords,
                      segments |-> LineSegments(r.pixel_coords)]
  /\ nops' = nops + 1
  /\ UNCHANGED <<csv, random, width, height, bg_color, file>>

NextPlot == ScatterRender \/ LineRender

SpecPlot == InitPlot /\ [][NextPlot]_vars

\* Line(xs, ys, ...) with two series of the same length, of up to MaxPts points.
InitPolyline ==
  /\ csv = NoCsv
  /\ random = NoRandom
  /\ width = 2 * Margin + ExtW
  /\ height = 2 * Margin + ExtH
  /\ bg_color = White
  /\ pixels = NewPixels(width, height, bg_color)
  /\ file = <<>>
  /\ \E n \in 0..MaxPts :
       \E xs \in [1..n -> DataValues], ys \in [1..n -> DataValues], o \in LineOptions :
          plot = NewPlot("Line", xs, ys, o)
  /\ call = NoCall
  /\ nops = 0

NextPolyline == LineRender

SpecPolyline == InitPolyline /\ [][NextPolyline]_vars

\* ------------------------------------------------------------ Csv
\* Python's None for an optional int, and an int given.
NoneInt == [is_none |-> TRUE, value |-> 0]
SomeInt(n) == [is_none |-> FALSE, value |-> n]

\* A slice bound as Python clamps it for a list of n items: None is the default,
\* a negative index counts from the end, and both stop at 0 and n.
SliceBound(v, n, default) ==
  IF v.is_none THEN default
  ELSE IF v.value < 0 THEN (IF v.value + n < 0 THEN 0 ELSE v.value + n)
  ELSE IF v.value > n THEN n ELSE v.value

\* rows[row_start:row_end]
Slice(rows, row_start, row_end) ==
  SubSeq(rows, SliceBound(row_start, Len(rows), 0) + 1,
         SliceBound(row_end, Len(rows), Len(rows)))

\* sep.join(strs), as a sequence of characters
RECURSIVE Join(_, _, _)
Join(strs, sep, i) ==
  IF i > Len(strs) THEN <<>>
  ELSE IF i = Len(strs) THEN strs[i]
  ELSE strs[i] \o sep \o Join(strs, sep, i + 1)

\* str() of a float with a whole value, as the rows of a loaded file hold them.
FloatStr(v) == IntStr(v) \o <<".", "0">>

\* The line visualize prints for a row: ' | '.join(map(str, row))
RowLine(row) == Join([c \in 1..Len(row) |-> FloatStr(row[c])], <<" ", "|", " ">>, 1)

\* Csv.visualize(row_start, row_end): the lines printed. With a header, the
\* header line and a line of 4 * len(header) dashes; then one line per row of
\* rows[row_start:row_end].
visualize(c, row_start, row_end) ==
  (IF Truthy(c.header)
   THEN << Join(c.header.list, <<" ", "|", " ">>, 1),
           [k \in 1..(Len(c.header.list) * 4) |-> "-"] >>
   ELSE <<>>)
  \o [k \in 1..Len(Slice(c.rows, row_start, row_end)) |->
        RowLine(Slice(c.rows, row_start, row_end)[k])]

\* Csv.head(n): self.visualize(row_end=n)
head(c, n) == visualize(c, NoneInt, SomeInt(n))

\* Csv.tail(n): self.visualize(row_end=n)
tail(c, n) == visualize(c, NoneInt, SomeInt(n))

\* Csv.add_row(row): the exception raised ("" when none) and the rows afterwards.
\* self.rows[0] of an object without rows raises IndexError.
add_row(c, row) ==
  IF Len(c.rows) = 0
  THEN [raised |-> "IndexError: list index out of range", rows |-> c.rows]
  ELSE IF Len(row) # Len(c.rows[1])
  THEN [raised |-> "ValueError", rows |-> c.rows]
  ELSE [raised |-> "", rows |-> Append(c.rows, row)]

\* The rows of a CSV file of n rows and ncols columns: all different, or all the same.
FileRows(n, ncols, distinct) ==
  [r \in 1..n |-> [c \in 1..ncols |-> IF distinct THEN 10 * r + c ELSE c]]

\* The header line of a CSV file of ncols columns.
FileHeader(ncols) == [c \in 1..ncols |-> <<"h", Digit(c)>>]

\* The record of the calls made so far on a new object: none.
FirstCall(n) == [op |-> "none", initial |-> n, successes |-> 0]

\* Csv() or Csv(file_path): without a file the object has no header and no rows;
\* with one, the file's first line is the header and the others are the rows.
InitCsv ==
  /\ width = 1 /\ height = 1 /\ bg_color = White
  /\ pixels = NewPixels(width, height, bg_color)
  /\ file = <<>>
  /\ plot = NoPlot
  /\ random = NoRandom
  /\ nops = 0
  /\ \/ csv = [kind |-> "Csv", header |-> None, rows |-> <<>>]
     \/ \E n \in 0..MaxRows, ncols \in 1..MaxCols, distinct \in BOOLEAN :
          csv = [kind |-> "Csv", header |-> Some(FileHeader(ncols)),
                 rows |-> FileRows(n, ncols, distinct)]
  /\ call = FirstCall(Len(csv.rows))

\* csv.add_row(row), with a row of k floats 91.0, 92.0, ...
AddRow ==
  /\ csv.kind = "Csv"
  /\ nops < MaxAdds
  /\ \E k \in 0..(MaxCols + 1) :
       \E row \in {[c \in 1..k |-> 90 + c]} :
          /\ csv' = [csv EXCEPT !.rows = add_row(csv, row).rows]
          /\ call' = [op |-> "add_row", row |-> row, raised |-> add_row(csv, row).raised,
                      before |-> csv.rows, initial |-> call.initial,
                      successes |-> call.successes
                                      + (IF add_row(csv, row).raised = "" THEN 1 ELSE 0)]
  /\ nops' = nops + 1
  /\ UNCHANGED <<width, height, bg_color, pixels, file, plot, random>>

\* csv.head(n)
CallHead ==
  /\ csv.kind = "Csv"
  /\ \E n \in -1..(Len(csv.rows) + 1) :
       call' = [op |-> "head", n |-> n, printed |-> head(csv, n),
                initial |-> call.initial, successes |-> call.successes]
  /\ UNCHANGED <<width, height, bg_color, pixels, file, plot, random, csv, nops>>

\* csv.tail(n)
CallTail ==
  /\ csv.kind = "Csv"
  /\ \E n \in -1..(Len(csv.rows) + 1) :
       call' = [op |-> "tail", n |-> n, printed |-> tail(csv, n),
                initial |-> call.initial, successes |-> call.successes]
  /\ UNCHANGED <<width, height, bg_color, pixels, file, plot, random, csv, nops>>

NextCsv == AddRow \/ CallHead \/ CallTail

SpecCsv == InitCsv /\ [][NextCsv]_vars

\* ---- Csv.train_test_split
\* The permutations of 1..n
Perms(n) == {f \in [1..n -> 1..n] : \A i, j \in 1..n : f[i] = f[j] => i = j}

\* The seeds train_test_split is called with.
Seeds == {42}

\* test_size as a fraction <<numerator, denominator>>: 0.0, 0.2, 0.5 and 1.0
TestSizes == {<<0, 1>>, <<1, 5>>, <<1, 2>>, <<1, 1>>}

\* random.shuffle(rows) when it rearranges by the permutation perm
Shuffled(rows, perm) == [i \in 1..Len(rows) |-> rows[perm[i]]]

\* Csv.train_test_split(test_size, seed) when the shuffle rearranges by perm: the
\* exception raised, self.rows afterwards, and the rows of the two objects
\* returned. int(len(rows) * test_size) is the whole part of the product.
train_test_split(c, test_size, perm) ==
  IF ~(0 < test_size[1] /\ test_size[1] < test_size[2])
  THEN [raised |-> "ValueError", rows |-> c.rows, train |-> <<>>, test |-> <<>>]
  ELSE [raised |-> "",
        rows |-> Shuffled(c.rows, perm),
        train |-> SubSeq(Shuffled(c.rows, perm),
                         ((Len(c.rows) * test_size[1]) \div test_size[2]) + 1, Len(c.rows)),
        test |-> SubSeq(Shuffled(c.rows, perm), 1,
                        (Len(c.rows) * test_size[1]) \div test_size[2])]

\* Csv(file_path), and the random module: random.seed(s) followed by
\* random.shuffle of a list of len(rows) items rearranges it the same way every
\* time, by a permutation the generator fixes for s and the length.
InitSplit ==
  /\ width = 1 /\ height = 1 /\ bg_color = White
  /\ pixels = NewPixels(width, height, bg_color)
  /\ file = <<>>
  /\ plot = NoPlot
  /\ nops = 0
  /\ \E n \in 0..MaxRows, ncols \in 1..MaxCols, distinct \in BOOLEAN :
       csv = [kind |-> "Csv", header |-> Some(FileHeader(ncols)),
              rows |-> FileRows(n, ncols, distinct)]
  /\ \E t \in [Seeds -> Perms(Len(csv.rows))] : random = [kind |-> "random", seeded |-> t]
  /\ call = [op |-> "none"]

\* What a call record keeps of a call for the next call's record.
Summary(c) ==
  IF c.op = "train_test_split"
  THEN [op |-> c.op, test_size |-> c.test_size, seed |-> c.seed, raised |-> c.raised,
        train |-> c.train, test |-> c.test]
  ELSE [op |-> c.op]

\* csv.train_test_split(test_size, seed) with a seed
SplitSeeded ==
  /\ csv.kind = "Csv" /\ random.kind = "random"
  /\ \E ts \in TestSizes, seed \in Seeds :
       \E r \in {train_test_split(csv, ts, random.seeded[seed])} :
          /\ csv' = [csv EXCEPT !.rows = r.rows]
          /\ call' = [op |-> "train_test_split", test_size |-> ts, seed |-> SomeInt(seed),
                      raised |-> r.raised, train |-> r.train, test |-> r.test,
                      prev |-> Summary(call)]
  /\ UNCHANGED <<width, height, bg_color, pixels, file, plot, random, nops>>

\* csv.train_test_split(test_size) with seed None: the generator is left as it
\* is, and the shuffle rearranges the rows in any way.
SplitUnseeded ==
  /\ csv.kind = "Csv" /\ random.kind = "random"
  /\ \E ts \in TestSizes, perm \in Perms(Len(csv.rows)) :
       \E r \in {train_test_split(csv, ts, perm)} :
          /\ csv' = [csv EXCEPT !.rows = r.rows]
          /\ call' = [op |-> "train_test_split", test_size |-> ts, seed |-> NoneInt,
                      raised |-> r.raised, train |-> r.train, test |-> r.test,
                      prev |-> Summary(call)]
  /\ UNCHANGED <<width, height, bg_color, pixels, file, plot, random, nops>>

NextSplit == SplitSeeded \/ SplitUnseeded

SpecSplit == InitSplit /\ [][NextSplit]_vars

\* ------------------------------------------------- reading a P3 file back
IsSpace(ch) == ch \in {" ", "\n"}

\* The fields of a text between occurrences of sep (empty fields kept).
Fields(text, sep) ==
  LET seps == {i \in 1..Len(text) : text[i] = sep}
      n == Cardinality(seps)
      rank == [i \in seps |-> Cardinality({j \in seps : j < i}) + 1]
      at == [k \in 1..n |-> CHOOSE i \in seps : rank[i] = k]
  IN [k \in 1..(n + 1) |->
        SubSeq(text, IF k = 1 THEN 1 ELSE at[k - 1] + 1,
                     IF k = n + 1 THEN Len(text) ELSE at[k] - 1)]

\* The concatenation of a sequence of sequences.
RECURSIVE Flatten(_, _)
Flatten(seqs, i) == IF i > Len(seqs) THEN <<>> ELSE seqs[i] \o Flatten(seqs, i + 1)

NonEmpty(f) == f # <<>>

\* The whitespace-separated tokens of a text, in order: those of each line.
Tokens(text) ==
  LET lines == Fields(text, "\n")
  IN Flatten([k \in 1..Len(lines) |-> SelectSeq(Fields(lines[k], " "), NonEmpty)], 1)

DigitChars == {"0", "1", "2", "3", "4", "5", "6", "7", "8", "9"}
DigitVal(ch) == CHOOSE d \in 0..9 : Digit(d) = ch

\* The number a sequence of digits denotes, or -1 when it is not one.
RECURSIVE ParseNat(_)
ParseNat(tok) ==
  IF tok = <<>> \/ \E i \in 1..Len(tok) : tok[i] \notin DigitChars THEN -1
  ELSE IF Len(tok) = 1 THEN DigitVal(tok[1])
       ELSE 10 * ParseNat(SubSeq(tok, 1, Len(tok) - 1)) + DigitVal(tok[Len(tok)])

\* A decimal integer without sign and without leading zeros.
IsDecimal(tok) == ParseNat(tok) >= 0 /\ (Len(tok) = 1 \/ tok[1] # "0")

InCanvas(x, y) == 0 <= x /\ x < width /\ 0 <= y /\ y < height
Abs(n) == IF n < 0 THEN -n ELSE n
PixelSet == {p \in (0..(width - 1)) \X (0..(height - 1)) : TRUE}

\* ------------------------------------------------------------ claims

\* C1: set_pixel(x, y, c) on a canvas filled with its background sets pixel
\* (x, y) to c and leaves every other pixel as it was when (x, y) is inside the
\* canvas, and leaves the whole buffer as it was when x or y is out of range.
C1_SetPixelFrame ==
  call.op = "set_pixel" =>
    IF InCanvas(call.x, call.y)
    THEN /\ pixels[call.y][call.x] = call.color
         /\ \A p \in PixelSet : p # <<call.x, call.y>> => pixels[p[2]][p[1]] = call.before[p[2]][p[1]]
    ELSE pixels = call.before

\* C1 happens: an in-range write on a fresh canvas changed exactly one pixel,
\* on a canvas that has other pixels.
C1_Witness ==
  /\ call.op = "set_pixel" /\ InCanvas(call.x, call.y) /\ nops = 1
  /\ call.color # bg_color /\ width > 1 /\ height > 1
  /\ Cardinality({p \in PixelSet : pixels[p[2]][p[1]] # bg_color}) = 1

\* C7: draw_dot(x, y, r, c) with r >= 0 sets exactly the in-canvas pixels of the
\* square |i - x| <= r, |j - y| <= r to c and leaves the others as they were; a
\* square that fits in the canvas has (2r+1)^2 pixels.
C7_DrawDotSquare ==
  call.op = "draw_dot" =>
    LET square == {p \in PixelSet : Abs(p[1] - call.x) <= call.radius
                                    /\ Abs(p[2] - call.y) <= call.radius}
        fits == /\ call.x - call.radius >= 0 /\ call.x + call.radius < width
                /\ call.y - call.radius >= 0 /\ call.y + call.radius < height
    IN /\ \A p \in square : pixels[p[2]][p[1]] = call.color
       /\ \A p \in PixelSet \ square : pixels[p[2]][p[1]] = call.before[p[2]][p[1]]
       /\ fits => Cardinality(square) = (2 * call.radius + 1) * (2 * call.radius + 1)

\* C7 happens: a dot of radius >= 1 crossing the canvas edge was clipped, some
\* of it drawn and some pixel left alone.
C7_Witness ==
  /\ call.op = "draw_dot" /\ call.radius >= 1 /\ call.color # bg_color
  /\ ~InCanvas(call.x - call.radius, call.y - call.radius)
  /\ \E p \in PixelSet : pixels[p[2]][p[1]] = call.color
  /\ \E p \in PixelSet : pixels[p[2]][p[1]] # call.color

\* The file read back as P3: tag, width, height, maximum value, then integers.
ReadBack(text) ==
  LET t == Tokens(text)
  IN [tag |-> t[1], width |-> ParseNat(t[2]), height |-> ParseNat(t[3]),
      maxval |-> ParseNat(t[4]),
      values |-> [k \in 1..(Len(t) - 4) |-> ParseNat(t[k + 4])]]

\* C8: the text written by save, read back as P3, gives the canvas's width and
\* height and the R, G, B of every pixel, after any drawing calls.
C8_RoundTrip ==
  call.op = "save" =>
    LET r == ReadBack(file)
    IN /\ r.tag = <<"P", "3">>
       /\ r.width = width /\ r.height = height
       /\ Len(r.values) = 3 * width * height
       /\ \A p \in PixelSet : \A ch \in 1..3 :
            r.values[3 * (p[2] * width + p[1]) + ch] = pixels[p[2]][p[1]][ch]

\* C8 happens: a canvas with more than one row and column, drawn on, was saved.
C8_Witness ==
  /\ call.op = "save" /\ nops >= 1 /\ width > 1 /\ height > 1
  /\ \E p \in PixelSet : pixels[p[2]][p[1]] # bg_color
  /\ \E p \in PixelSet : pixels[p[2]][p[1]] = bg_color

\* The lines of the saved file: its fields between "\n"; a file whose every line
\* ends in "\n" has an empty last field.
FileLines == Fields(file, "\n")

\* The channel values of pixel row y, left to right.
RowValues(y) == [k \in 1..(3 * width) |-> pixels[y][(k - 1) \div 3][((k - 1) % 3) + 1]]

HeaderOk ==
  /\ Len(FileLines) = 3 + height + 1
  /\ FileLines[Len(FileLines)] = <<>>
  /\ FileLines[1] = <<"P", "3">>
  /\ LET f == Fields(FileLines[2], " ")
     IN Len(f) = 2 /\ IsDecimal(f[1]) /\ IsDecimal(f[2])
        /\ ParseNat(f[1]) = width /\ ParseNat(f[2]) = height
  /\ FileLines[3] = <<"2", "5", "5">>

\* C9 as stated: the lines "P3", "<width> <height>", "255", then H row lines, row
\* line k being the 3W values of row k separated by single spaces and nothing else.
C9_AsStated ==
  call.op = "save" =>
    /\ HeaderOk
    /\ \A y \in 0..(height - 1) :
         LET f == Fields(FileLines[4 + y], " ")
         IN /\ Len(f) = 3 * width
            /\ \A k \in 1..(3 * width) : IsDecimal(f[k]) /\ ParseNat(f[k]) = RowValues(y)[k]

\* C9 amended: as stated, except that every value of a row line, the last one
\* too, is followed by one space: the line ends "<value> " before its newline.
C9_RowLines ==
  call.op = "save" =>
    /\ HeaderOk
    /\ \A y \in 0..(height - 1) :
         LET f == Fields(FileLines[4 + y], " ")
         IN /\ Len(f) = 3 * width + 1
            /\ f[3 * width + 1] = <<>>
            /\ \A k \in 1..(3 * width) : IsDecimal(f[k]) /\ ParseNat(f[k]) = RowValues(y)[k]

\* C9 happens: a canvas of several rows and columns holding different values was saved.
C9_Witness ==
  /\ call.op = "save" /\ width > 1 /\ height > 1
  /\ \E p, q \in PixelSet : pixels[p[2]][p[1]] # pixels[q[2]][q[1]]

\* The set of stamp centres of a sequence of stamps.
StampSet(stamps) == {stamps[i] : i \in 1..Len(stamps)}

\* The stamp centres of _draw_line(x0, y0, x1, y1), in order.
StampsOf(x0, y0, x1, y1) == LineStamps(x0, y0, x1, y1)

\* C4 as stated: rasterizing a -> b and b -> a visit the same set of stamp centres.
C4_AsStated ==
  call.op = "_draw_line" =>
    StampSet(call.stamps) = StampSet(StampsOf(call.x1, call.y1, call.x0, call.y0))

\* C4 amended: b -> a visits as many stamp centres as a -> b, both visit both
\* endpoints, and the set of b -> a is the set of a -> b reflected through the
\* segment's midpoint (p |-> a + b - p); the two sets are the same set when the
\* segment is axis-aligned or a perfect diagonal.
C4_ReverseIsReflection ==
  call.op = "_draw_line" =>
    LET fwd == call.stamps
        bwd == StampsOf(call.x1, call.y1, call.x0, call.y0)
        a == <<call.x0, call.y0>>
        b == <<call.x1, call.y1>>
        adx == Abs(call.x1 - call.x0)
        ady == Abs(call.y1 - call.y0)
    IN /\ Len(bwd) = Len(fwd)
       /\ Cardinality(StampSet(bwd)) = Cardinality(StampSet(fwd))
       /\ {a, b} \subseteq StampSet(fwd) /\ {a, b} \subseteq StampSet(bwd)
       /\ StampSet(bwd) = {<<a[1] + b[1] - p[1], a[2] + b[2] - p[2]>> : p \in StampSet(fwd)}
       /\ (adx = 0 \/ ady = 0 \/ adx = ady) => StampSet(bwd) = StampSet(fwd)

\* C4 happens: a segment that is neither axis-aligned nor diagonal was rasterized
\* and its reverse visits the same set.
C4_Witness ==
  /\ call.op = "_draw_line"
  /\ Abs(call.x1 - call.x0) = 3 /\ Abs(call.y1 - call.y0) = 1
  /\ StampSet(call.stamps) = StampSet(StampsOf(call.x1, call.y1, call.x0, call.y0))

\* C5: an axis-aligned segment is stamped at exactly the |x1-x0|+|y1-y0|+1 pixels
\* between its endpoints, each once, in order from the start to the end.
C5_AxisAligned ==
  (call.op = "_draw_line" /\ (call.x0 = call.x1 \/ call.y0 = call.y1)) =>
    LET n == Abs(call.x1 - call.x0) + Abs(call.y1 - call.y0)
        ux == IF call.x1 > call.x0 THEN 1 ELSE IF call.x1 < call.x0 THEN -1 ELSE 0
        uy == IF call.y1 > call.y0 THEN 1 ELSE IF call.y1 < call.y0 THEN -1 ELSE 0
    IN call.stamps = [k \in 1..(n + 1) |-> <<call.x0 + (k - 1) * ux, call.y0 + (k - 1) * uy>>]

\* C5 happens: a horizontal and a vertical run of several pixels were stamped.
C5_Witness ==
  /\ call.op = "_draw_line" /\ call.x0 = call.x1 /\ call.y1 - call.y0 >= 2
  /\ Len(call.stamps) = call.y1 - call.y0 + 1
  /\ \A y \in 0..(height - 1) : call.x0 = 0 => pixels[y][0] = plot.color

\* ------------------------------------------------------------ render
ShapeMismatch == "ValueError: x_data and y_data must be the same length"
Rendered == call.op = "render" /\ call.raised = ""
XValues == {plot.x_data[i] : i \in 1..Len(plot.x_data)}
YValues == {plot.y_data[i] : i \in 1..Len(plot.y_data)}

\* C2: render raises if and only if len(x_data) # len(y_data): every pair of
\* series of equal length, two empty series among them, renders without raising,
\* and every pair of different lengths raises the shape-mismatch error.
C2_AsStated ==
  call.op = "render" =>
    /\ (Len(plot.x_data) # Len(plot.y_data)) => call.raised = ShapeMismatch
    /\ (Len(plot.x_data) = Len(plot.y_data)) => call.raised = ""

\* C3: a render that fails because the two series differ in length draws
\* nothing: every pixel is after the call what it was before it, whatever the
\* title, labels, ticks and data.
C3_FailedRenderDrawsNothing ==
  [][(call'.op = "render" /\ call'.raised = ShapeMismatch) => pixels' = pixels]_vars

C3_Witness ==
  /\ call.op = "render"
  /\ call.raised = ShapeMismatch
  /\ Len(plot.x_data) > 0 /\ Len(plot.y_data) > 0
  /\ Len(plot.title) > 0 /\ Truthy(plot.x_ticks)
  /\ pixels = NewPixels(width, height, bg_color)

\* C6: in a series whose values are not all equal, the mapping
\* margin + trunc((v - min) / range * extent) sends the least value to margin and
\* the greatest to margin + extent: horizontally that is the pixel column, and
\* vertically the row counted from the bottom edge (height - row).
C6_MinMaxMapping ==
  Rendered =>
    \A i \in 1..Len(call.pixel_coords) :
      /\ (SeqMax(plot.x_data) # SeqMin(plot.x_data)) =>
           /\ (plot.x_data[i] = SeqMin(plot.x_data)) => call.pixel_coords[i][1] = Margin
           /\ (plot.x_data[i] = SeqMax(plot.x_data)) =>
                call.pixel_coords[i][1] = Margin + (width - 2 * Margin)
      /\ (SeqMax(plot.y_data) # SeqMin(plot.y_data)) =>
           /\ (plot.y_data[i] = SeqMin(plot.y_data)) =>
                height - call.pixel_coords[i][2] = Margin
           /\ (plot.y_data[i] = SeqMax(plot.y_data)) =>
                height - call.pixel_coords[i][2] = Margin + (height - 2 * Margin)

C6_Witness ==
  /\ Rendered
  /\ Len(plot.x_data) >= 2
  /\ SeqMax(plot.x_data) - SeqMin(plot.x_data) = 3
  /\ SeqMax(plot.y_data) - SeqMin(plot.y_data) = 2
  /\ \E i, j \in 1..Len(call.pixel_coords) :
       /\ call.pixel_coords[i] = <<Margin, height - Margin>>
       /\ call.pixel_coords[j] = <<width - Margin, Margin>>

\* C10: when all x values are equal (all y values are equal) render completes,
\* range_x (range_y) is 1 and every point has the pixel column margin (the pixel
\* row height - margin).
C10_DegenerateRange ==
  (call.op = "render" /\ Len(plot.x_data) = Len(plot.y_data) /\ Len(plot.x_data) > 0) =>
    /\ (Cardinality(XValues) = 1) =>
         /\ call.raised = ""
         /\ plot.range_x = 1
         /\ \A i \in 1..Len(plot.x_data) : call.pixel_coords[i][1] = Margin
    /\ (Cardinality(YValues) = 1) =>
         /\ call.raised = ""
         /\ plot.range_y = 1
         /\ \A i \in 1..Len(plot.y_data) : call.pixel_coords[i][2] = height - Margin

C10_Witness ==
  /\ Rendered
  /\ Len(plot.x_data) = 2
  /\ Cardinality(XValues) = 1 /\ 3 \in XValues
  /\ Cardinality(YValues) = 2
  /\ plot.range_x = 1
  /\ call.pixel_coords[1][1] = Margin /\ call.pixel_coords[2][1] = Margin

\* ------------------------------------------------------------ more of _draw_line
\* The iterations of a stamp sequence in which x and y advance together.
BothSteps(stamps) ==
  {k \in 1..(Len(stamps) - 1) :
     stamps[k + 1][1] # stamps[k][1] /\ stamps[k + 1][2] # stamps[k][2]}

\* C15: on a perfect diagonal (|x1 - x0| = |y1 - y0| = n) the stamps are exactly
\* the n + 1 pixels (x0 + k * sx, y0 + k * sy), k = 0..n, in order; and on any
\* segment both step tests fire together in min(|x1 - x0|, |y1 - y0|) iterations.
C15_Diagonal ==
  call.op = "_draw_line" =>
    LET adx == Abs(call.x1 - call.x0)
        ady == Abs(call.y1 - call.y0)
    IN /\ (adx = ady) =>
            call.stamps = [k \in 1..(adx + 1) |->
                             <<call.x0 + (k - 1) * Sign(call.x0, call.x1),
                               call.y0 + (k - 1) * Sign(call.y0, call.y1)>>]
       /\ Cardinality(BothSteps(call.stamps)) = (IF adx <= ady THEN adx ELSE ady)

\* C15 happens: a diagonal of three or more pixels going up and left was stamped.
C15_Witness ==
  /\ call.op = "_draw_line"
  /\ call.x0 - call.x1 >= 2 /\ call.y0 - call.y1 = call.x0 - call.x1
  /\ Len(call.stamps) = call.x0 - call.x1 + 1
  /\ call.stamps[2] = <<call.x0 - 1, call.y0 - 1>>

\* max(|x1 - x0|, |y1 - y0|) of the call in progress
WalkLength ==
  IF Abs(call.x1 - call.start[1]) >= Abs(call.y1 - call.start[2])
  THEN Abs(call.x1 - call.start[1]) ELSE Abs(call.y1 - call.start[2])

\* Whether p lies in the rectangle spanned by the start and the end of the call.
BetweenEnds(p) ==
  /\ Abs(p[1] - call.start[1]) + Abs(call.x1 - p[1]) = Abs(call.x1 - call.start[1])
  /\ Abs(p[2] - call.start[2]) + Abs(call.y1 - p[2]) = Abs(call.y1 - call.start[2])

\* The loop never steps past the end point, and when it has stopped it has made
\* max(|x1 - x0|, |y1 - y0|) + 1 stamps, the last of them at (x1, y1).
WalkSafe ==
  /\ BetweenEnds(<<call.x0, call.y0>>)
  /\ \A k \in 1..Len(call.stamps) : BetweenEnds(call.stamps[k])
  /\ Len(call.stamps) <= WalkLength + 1
  /\ (call.pc = "done") =>
       /\ Len(call.stamps) = WalkLength + 1
       /\ call.stamps[Len(call.stamps)] = <<call.x1, call.y1>>

\* C19: _draw_line terminates for every pair of endpoints, coincident ones and
\* ones outside the canvas included: the loop stops, after exactly
\* max(|x1 - x0|, |y1 - y0|) + 1 stamps, at (x1, y1), and never steps past it.
C19_Terminates == []WalkSafe /\ <>(call.pc = "done")

\* C19 happens: a walk between two points outside the canvas has stopped.
C19_Witness ==
  /\ call.op = "_draw_line" /\ call.pc = "done"
  /\ call.start = <<-1, height>> /\ call.x1 = width /\ call.y1 = -1
  /\ Len(call.stamps) = WalkLength + 1
  /\ WalkLength >= 3

\* ------------------------------------------------------------ more of render
\* C14: after a successful render on a canvas wider and higher than 2 * margin,
\* every pixel (margin + i, height - margin), 0 <= i <= width - 2 * margin, and
\* every pixel (margin, height - margin - i), 0 <= i <= height - 2 * margin, is
\* black: the axes span the plot extent and no dot or line is left over them.
C14_AxesBlack ==
  (Rendered /\ width > 2 * Margin /\ height > 2 * Margin) =>
    /\ \A i \in 0..(width - 2 * Margin) : pixels[height - Margin][Margin + i] = Black
    /\ \A i \in 0..(height - 2 * Margin) : pixels[height - Margin - i][Margin] = Black

\* C14 happens: a dot of another colour lies across the corner of the axes (it
\* shows just outside them) and the corner pixel is black.
C14_Witness ==
  /\ Rendered /\ plot.kind = "Scatter" /\ plot.point_size >= 1
  /\ call.pixel_coords[1] = <<Margin, height - Margin>>
  /\ pixels[height - Margin + 1][Margin - 1] \notin {Black, bg_color}
  /\ pixels[height - Margin][Margin] = Black
  /\ pixels[height - Margin][width - Margin] = Black
  /\ pixels[Margin][Margin] = Black

\* C17: pixel_y = height - trunc((v - min_y) / range_y * plot_h) - margin. It
\* reverses the order of the data values, puts the least value on the row
\* height - margin, and with the horizontal mapping puts every point inside the
\* plot rectangle margin <= px <= width - margin, margin <= py <= height - margin.
C17_VerticalFlip ==
  Rendered =>
    \A i \in 1..Len(call.pixel_coords) :
      LET a == plot.y_data[i] - plot.min_y
          offset == height - call.pixel_coords[i][2] - Margin
      IN /\ offset \in {Trunc(a * plot.plot_h, plot.range_y),
                        Trunc(a * plot.plot_h, plot.range_y) - 1}
         /\ (a % plot.range_y = 0 \/ (a * plot.plot_h) % plot.range_y # 0) =>
              offset = Trunc(a * plot.plot_h, plot.range_y)
         /\ \A j \in 1..Len(call.pixel_coords) :
              (plot.y_data[i] <= plot.y_data[j]) =>
                call.pixel_coords[i][2] >= call.pixel_coords[j][2]
         /\ (plot.y_data[i] = SeqMin(plot.y_data)) => call.pixel_coords[i][2] = height - Margin
         /\ Margin <= call.pixel_coords[i][1] /\ call.pixel_coords[i][1] <= width - Margin
         /\ Margin <= call.pixel_coords[i][2] /\ call.pixel_coords[i][2] <= height - Margin

\* C17 happens: of two points the one with the greater y has the smaller row.
C17_Witness ==
  /\ Rendered /\ Len(plot.y_data) = 2
  /\ plot.y_data[1] = 0 /\ plot.y_data[2] = 1 /\ plot.range_y = 1
  /\ call.pixel_coords[1][2] = height - Margin
  /\ call.pixel_coords[2][2] = Margin

\* The points (from 1) whose dot covers the pixel (x, y).
Covering(x, y) ==
  {i \in 1..Len(call.pixel_coords) :
     /\ Abs(call.pixel_coords[i][1] - x) <= plot.point_size
     /\ Abs(call.pixel_coords[i][2] - y) <= plot.point_size}

\* The colour the claim gives point i (from 1).
PointColor(i) ==
  IF ~plot.dot_colors.is_none /\ i <= Len(plot.dot_colors.list)
  THEN plot.dot_colors.list[i] ELSE plot.color

\* The pixels the axes ink.
OnAxes(x, y) ==
  \/ y = height - Margin /\ Margin <= x /\ x <= width - Margin
  \/ x = Margin /\ Margin <= y /\ y <= height - Margin

\* C18: a Scatter of series of equal length renders whatever the length of the
\* colour list, and every pixel a dot covers (the axes apart) has the colour of
\* the last point covering it: dot_colors[i] when a list was given and
\* i < len(dot_colors), the default colour otherwise.
C18_DotColors ==
  (call.op = "render" /\ plot.kind = "Scatter"
     /\ Len(plot.x_data) = Len(plot.y_data) /\ Len(plot.x_data) > 0) =>
    /\ call.raised = ""
    /\ \A x \in (Margin - MaxRadius)..(width - Margin + MaxRadius),
          y \in (Margin - MaxRadius)..(height - Margin + MaxRadius) :
         (Covering(x, y) # {} /\ ~OnAxes(x, y)) =>
            pixels[y][x] = PointColor(CHOOSE i \in Covering(x, y) :
                                        \A j \in Covering(x, y) : j <= i)

\* C18 happens: a list of one colour for two points in one column whose dots
\* overlap: the first dot has the list's colour, the second the default colour,
\* and the pixels they share have the second's.
C18_Witness ==
  /\ Rendered /\ plot.kind = "Scatter" /\ plot.point_size = 1
  /\ ~plot.dot_colors.is_none /\ Len(plot.dot_colors.list) = 1 /\ Len(plot.x_data) = 2
  /\ call.pixel_coords[1] = <<Margin, height - Margin>>
  /\ call.pixel_coords[2] = <<Margin, height - Margin - 2>>
  /\ pixels[height - Margin + 1][Margin + 1] = plot.dot_colors.list[1]
  /\ pixels[height - Margin - 1][Margin + 1] = plot.color
  /\ pixels[height - Margin - 3][Margin + 1] = plot.color

\* ------------------------------------------------------------ the polyline
\* Whether stamp centre q follows stamp centre p at one pixel's distance: at
\* most 1 in x and in y, and not 0 in both.
NextTo(p, q) ==
  /\ Abs(q[1] - p[1]) <= 1 /\ Abs(q[2] - p[2]) <= 1
  /\ q # p

\* Whether successive stamp centres of a sequence are one pixel apart throughout.
Connected(stamps) == \A k \in 1..(Len(stamps) - 1) : NextTo(stamps[k], stamps[k + 1])

\* The pixels the stamps of radius r cover.
StampedPixels(stamps, r) ==
  UNION {{<<c[1] + dx, c[2] + dy>> : dx \in (-r)..r, dy \in (-r)..r} : c \in StampSet(stamps)}

\* Whether the pixels of the line's colour are the covered ones, the axes apart.
LineInk(covered) ==
  \A x \in (Margin - MaxRadius)..(width - Margin + MaxRadius),
     y \in (Margin - MaxRadius)..(height - Margin + MaxRadius) :
    /\ (<<x, y>> \in covered /\ ~OnAxes(x, y)) => pixels[y][x] = plot.color
    /\ (pixels[y][x] = plot.color) => <<x, y>> \in covered

\* C16 as stated: the n - 1 segments join consecutive mapped points, and any two
\* successive stamp centres of the drawing step are one pixel apart.
C16_AsStated ==
  (Rendered /\ plot.kind = "Line" /\ Len(call.pixel_coords) >= 2) =>
    /\ Len(call.segments) = Len(call.pixel_coords) - 1
    /\ \A k \in 1..Len(call.segments) :
         /\ call.segments[k][1] = call.pixel_coords[k]
         /\ call.segments[k][Len(call.segments[k])] = call.pixel_coords[k + 1]
    /\ Connected(Flatten(call.segments, 1))

\* C16 amended: for n >= 2 points the drawing step rasterizes the n - 1 segments
\* between consecutive mapped points, in input order; segment i starts with a
\* stamp at mapped point i and ends with one at mapped point i + 1; within a
\* segment successive stamp centres are one pixel apart; from one segment to the
\* next the shared mapped point is stamped twice in succession (and a segment
\* between two points with the same pixel is a single stamp). The pixels of the
\* line's colour are those the stamps cover, the axes apart.
C16_Polyline ==
  (Rendered /\ plot.kind = "Line" /\ Len(call.pixel_coords) >= 2) =>
    /\ Len(call.segments) = Len(call.pixel_coords) - 1
    /\ \A k \in 1..Len(call.segments) :
         /\ call.segments[k][1] = call.pixel_coords[k]
         /\ call.segments[k][Len(call.segments[k])] = call.pixel_coords[k + 1]
         /\ Connected(call.segments[k])
         /\ (call.pixel_coords[k] = call.pixel_coords[k + 1]) => Len(call.segments[k]) = 1
         /\ (k < Len(call.segments)) =>
              call.segments[k + 1][1] = call.segments[k][Len(call.segments[k])]
    /\ LineInk(StampedPixels(Flatten(call.segments, 1), plot.line_thickness))

\* C16 happens: a polyline of two segments that turns back at its middle point.
C16_Witness ==
  /\ Rendered /\ plot.kind = "Line" /\ Len(call.pixel_coords) = 3
  /\ call.pixel_coords[1] = <<Margin, height - Margin>>
  /\ call.pixel_coords[2] = <<width - Margin, Margin>>
  /\ call.pixel_coords[3][1] = Margin + 1
  /\ Len(call.segments) = 2
  /\ Len(call.segments[1]) = width - 2 * Margin + 1
  /\ pixels[Margin][width - Margin] = plot.color

\* ------------------------------------------------------------ Csv claims
\* C11: two calls of train_test_split in a row on one object, with the same
\* test_size and the same seed (not None), return the same train rows and the
\* same test rows, in the same order.
C11_AsStated ==
  (/\ call.op = "train_test_split" /\ call.prev.op = "train_test_split"
   /\ ~call.seed.is_none /\ call.seed = call.prev.seed
   /\ call.test_size = call.prev.test_size
   /\ call.raised = "" /\ call.prev.raised = "") =>
    /\ call.train = call.prev.train
    /\ call.test = call.prev.test

\* C12: add_row(row) appends row as the last row when len(row) is the column
\* count of the rows there are, and otherwise raises ValueError and leaves the
\* rows as they are; so all rows have one length, and len(csv) is the initial
\* count plus the number of successful calls.
C12_AsStated ==
  /\ (call.op = "add_row" =>
        \/ /\ call.raised = ""
           /\ csv.rows = Append(call.before, call.row)
           /\ call.before # <<>> => Len(call.row) = Len(call.before[1])
        \/ /\ call.raised = "ValueError"
           /\ csv.rows = call.before
           /\ call.before # <<>> => Len(call.row) # Len(call.before[1]))
  /\ (csv.kind = "Csv" =>
        /\ \A i, j \in 1..Len(csv.rows) : Len(csv.rows[i]) = Len(csv.rows[j])
        /\ Len(csv.rows) = call.initial + call.successes)

\* C13: tail(n) displays the last n rows, rows[len - n] .. rows[len - 1], in
\* order, for 0 < n <= len (after the header lines when there is a header).
C13_AsStated ==
  (call.op = "tail" /\ 0 < call.n /\ call.n <= Len(csv.rows)) =>
    LET lines == IF Truthy(csv.header) THEN SubSeq(call.printed, 3, Len(call.printed))
                 ELSE call.printed
    IN lines = [k \in 1..call.n |-> RowLine(csv.rows[Len(csv.rows) - call.n + k])]


====
